---- MODULE Spec2Model ----
(***************************************************************************)
(* Model of backend/lambda_function.py: the module initialisation (store   *)
(* handle, DYNAMODB_TABLE_NAME) and lambda_handler(event, context).        *)
(*                                                                         *)
(* A Lambda execution environment loads the module once (cold start) and   *)
(* then serves one request at a time; several environments may run at the  *)
(* same time against the same DynamoDB table.  An invocation is one step   *)
(* up to the blocking table.put_item call and one step for that call's     *)
(* completion (the write and the 200, or the fault and its handler).       *)
(***************************************************************************)
EXTENDS Integers, Sequences, FiniteSets, TLC

\* ---------------------------------------------------------------- bounds
\* Execution environments running concurrently.
NumEnvs == 2
\* Invocations handled in one behaviour of Spec (any request shape).
MaxInvocations == 1
\* Invocations handled in one behaviour of SpecConc (requests of ConcEvents).
MaxConcInvocations == 3

Envs == 1 .. NumEnvs

\* ------------------------------------------------------ JSON / Python values
\* A scalar is [t, s, n]: its Python type, its characters (str) and its number
\* (int, and bool, which Python makes a subclass of int: True == 1).
Scalar(t, s, n) == [t |-> t, s |-> s, n |-> n]
Absent == Scalar("absent", <<>>, 0)
JStr(s) == Scalar("str", s, 0)
JInt(n) == Scalar("int", <<>>, n)
JBool(b) == Scalar("bool", <<>>, IF b THEN 1 ELSE 0)

Whitespace == {" "}

\* str.strip(): leading and trailing whitespace removed.
RECURSIVE LStrip(_)
LStrip(s) == IF s # <<>> /\ Head(s) \in Whitespace THEN LStrip(Tail(s)) ELSE s

RECURSIVE RStrip(_)
RStrip(s) ==
  IF s # <<>> /\ s[Len(s)] \in Whitespace THEN RStrip(SubSeq(s, 1, Len(s) - 1)) ELSE s

strip(s) == RStrip(LStrip(s))

\* Python truth value of a scalar (`not x` is its negation).
Truthy(v) ==
  CASE v.t = "str" -> v.s # <<>>
    [] v.t \in {"int", "bool"} -> v.n # 0
    [] OTHER -> FALSE

\* isinstance(v, int)
IsInstanceInt(v) == v.t \in {"int", "bool"}

\* dict.get(key, default)
Get(o, key, default) == IF o[key] = Absent THEN default ELSE o[key]

\* ------------------------------------------------------------ requests
\* A parsed JSON object: each key of interest maps to a scalar, or to Absent.
Fields(n, e, c, r, m) == [name |-> n, email |-> e, category |-> c, rating |-> r, comment |-> m]
NoFields == Fields(Absent, Absent, Absent, Absent, Absent)

\* event['body']: the key missing, None, text json.loads rejects, or text that
\* json.loads turns into `value` (a dict, or a list / str / int / None).
Body(form, t, o) == [form |-> form, value |-> [t |-> t, o |-> o]]
BodyMissing == Body("missing", "-", NoFields)
BodyNone == Body("None", "-", NoFields)
BodyMalformed == Body("malformed", "-", NoFields)
BodyNonObject(t) == Body("json", t, NoFields)
BodyObject(o) == Body("json", "dict", o)

\* event['httpMethod'] when the event has no such key.
MISSING == "<missing>"
Event(m, b) == [httpMethod |-> m, body |-> b]
NoEvent == Event("-", BodyMissing)

\* ----------------------------------------------------------- responses
NoField == "<absent>"
Obj(success, error, message, feedbackId) ==
  [success |-> success, error |-> error, message |-> message, feedbackId |-> feedbackId]

\* json.dumps(o): the text of a JSON object (True and False print as true, false).
json_dumps(o) == [text |-> "json", obj |-> o]
\* '' : the empty string
EmptyString == [text |-> "", obj |-> Obj(NoField, NoField, NoField, NoField)]

cors_headers ==
  { <<"Access-Control-Allow-Origin", "*">>,
    <<"Access-Control-Allow-Headers",
      "Content-Type,X-Amz-Date,Authorization,X-Api-Key,X-Amz-Security-Token">>,
    <<"Access-Control-Allow-Methods", "POST,OPTIONS">> }

Response(status, headers, body) == [statusCode |-> status, headers |-> headers, body |-> body]
NoResponse == Response(0, {}, EmptyString)

ErrorBody(msg) == json_dumps(Obj("false", msg, NoField, NoField))

\* Mutant: the response names an identifier from a second uuid4() call.
SuccessBodySecondUuid(feedback_id) ==
  json_dumps(Obj("true", NoField, "Feedback submitted successfully!", "uuid-0"))

SuccessBody(feedback_id) ==
  json_dumps(Obj("true", NoField, "Feedback submitted successfully!", feedback_id))

\* ---------------------------------------------------------------- items
Item(feedback_id, name, email, category, rating, comment, timestamp) ==
  [feedback_id |-> feedback_id, Name |-> name, Email |-> email, Category |-> category,
   Rating |-> rating, Comment |-> comment, Timestamp |-> timestamp]
NoItem == Item("", Absent, Absent, Absent, Absent, Absent, "")

\* ------------------------------------------------------------- outcomes
\* What a piece of the handler ends with: a returned response, a raised
\* exception (class and str(e)), or the item handed to table.put_item.
Return(r) == [kind |-> "return", response |-> r, exc |-> "", msg |-> "", item |-> NoItem]
Raise(exc, msg) == [kind |-> "raise", response |-> NoResponse, exc |-> exc, msg |-> msg, item |-> NoItem]
PutCall(i) == [kind |-> "put", response |-> NoResponse, exc |-> "", msg |-> "", item |-> i]

\* 'Anonymous', 'N/A', 'General', ''
Anonymous == JStr(<<"A", "n", "o", "n", "y", "m", "o", "u", "s">>)
NotAvailable == JStr(<<"N", "/", "A">>)
General == JStr(<<"G", "e", "n", "e", "r", "a", "l">>)

\* Mutant: the email is checked before the name.
ValidateEmailFirst(name, email, comment, rating) ==
  IF ~Truthy(email) THEN
    Response(400, cors_headers, ErrorBody("Feedback email cannot be empty."))
  ELSE IF ~Truthy(name) THEN
    Response(400, cors_headers, ErrorBody("Feedback name cannot be empty."))
  ELSE IF ~Truthy(comment) THEN
    Response(400, cors_headers, ErrorBody("Feedback comment cannot be empty."))
  ELSE IF ~IsInstanceInt(rating) \/ rating.n < 1 \/ rating.n > 5 THEN
    Response(400, cors_headers, ErrorBody("Rating must be an integer between 1 and 5."))
  ELSE NoResponse

\* Mutant: the rating is not checked.
ValidateWithoutRating(name, email, comment, rating) ==
  IF ~Truthy(name) THEN
    Response(400, cors_headers, ErrorBody("Feedback name cannot be empty."))
  ELSE IF ~Truthy(email) THEN
    Response(400, cors_headers, ErrorBody("Feedback email cannot be empty."))
  ELSE IF ~Truthy(comment) THEN
    Response(400, cors_headers, ErrorBody("Feedback comment cannot be empty."))
  ELSE NoResponse

\* The four checks of lines 64-87, in the order of the code: the 400 of the
\* first one that fails, or NoResponse when all pass.
Validate(name, email, comment, rating) ==
  IF ~Truthy(name) THEN
    Response(400, cors_headers, ErrorBody("Feedback name cannot be empty."))
  ELSE IF ~Truthy(email) THEN
    Response(400, cors_headers, ErrorBody("Feedback email cannot be empty."))
  ELSE IF ~Truthy(comment) THEN
    Response(400, cors_headers, ErrorBody("Feedback comment cannot be empty."))
  ELSE IF ~IsInstanceInt(rating) \/ rating.n < 1 \/ rating.n > 5 THEN
    Response(400, cors_headers, ErrorBody("Rating must be an integer between 1 and 5."))
  ELSE NoResponse

\* body.get('comment', '').strip(): only a str has strip.
StripComment(c) ==
  IF c.t = "str" THEN Return(NoResponse) ELSE
  Raise("AttributeError", "'" \o c.t \o "' object has no attribute 'strip'")

\* Lines 53-108: the try block up to the call of table.put_item.
Submission(ev, feedback_id, timestamp) ==
  IF ev.body.form = "missing" THEN Raise("KeyError", "'body'")
  ELSE IF ev.body.form = "None" THEN
    Raise("TypeError", "the JSON object must be str, bytes or bytearray, not NoneType")
  ELSE IF ev.body.form = "malformed" THEN
    Raise("JSONDecodeError", "Expecting value: line 1 column 1 (char 0)")
  ELSE IF ev.body.value.t # "dict" THEN
    Raise("AttributeError", "'" \o ev.body.value.t \o "' object has no attribute 'get'")
  ELSE
    LET body == ev.body.value.o
        name == Get(body, "name", Anonymous)
        email == Get(body, "email", NotAvailable)
        category == Get(body, "category", General)
        rating == Get(body, "rating", JInt(0))
        raw == Get(body, "comment", JStr(<<>>))
    IN IF StripComment(raw).kind = "raise" THEN StripComment(raw)
       ELSE LET comment == JStr(strip(raw.s))
                invalid == Validate(name, email, comment, rating)
            IN IF invalid # NoResponse THEN Return(invalid)
               ELSE PutCall(Item(feedback_id, name, email, category, rating, comment,
                                 timestamp))

\* Mutant: the last clause answers 400 like the two before it.
ExceptAlways400(exc, msg) ==
  IF exc = "JSONDecodeError" THEN
    Response(400, cors_headers, ErrorBody("Invalid JSON in request body."))
  ELSE IF exc = "KeyError" THEN
    Response(400, cors_headers, ErrorBody("Missing expected field: " \o msg))
  ELSE
    Response(400, cors_headers, ErrorBody("Internal server error: " \o msg))

\* Mutant: the last clause returns its response without the headers.
ExceptWithoutCors(exc, msg) ==
  IF exc = "JSONDecodeError" THEN
    Response(400, cors_headers, ErrorBody("Invalid JSON in request body."))
  ELSE IF exc = "KeyError" THEN
    Response(400, cors_headers, ErrorBody("Missing expected field: " \o msg))
  ELSE
    Response(500, {}, ErrorBody("Internal server error: " \o msg))

\* The except clauses of lines 129-153, for an exception raised in the try block.
Except(exc, msg) ==
  IF exc = "JSONDecodeError" THEN
    Response(400, cors_headers, ErrorBody("Invalid JSON in request body."))
  ELSE IF exc = "KeyError" THEN
    Response(400, cors_headers, ErrorBody("Missing expected field: " \o msg))
  ELSE
    Response(500, cors_headers, ErrorBody("Internal server error: " \o msg))

\* Mutant: the preflight is answered 204 No Content.
PreflightNoContent == Response(204, cors_headers, EmptyString)

\* Lines 41-46: the answer to a CORS preflight.
Preflight == Response(200, cors_headers, EmptyString)

\* Lines 156-161: the answer to any method other than OPTIONS and POST.
MethodNotAllowed == Response(405, cors_headers, ErrorBody("Method Not Allowed"))

\* lambda_handler up to its return, its uncaught exception, or its put_item call.
lambda_handler(ev, feedback_id, timestamp) ==
  IF ev.httpMethod = MISSING THEN Raise("KeyError", "'httpMethod'")
  ELSE IF ev.httpMethod = "OPTIONS" THEN Return(Preflight)
  ELSE IF ev.httpMethod = "POST" THEN
    LET r == Submission(ev, feedback_id, timestamp)
    IN IF r.kind = "raise" THEN Return(Except(r.exc, r.msg)) ELSE r
  ELSE Return(MethodNotAllowed)

\* ------------------------------------------------------------ inputs
NameValues == {Absent, JStr(<<>>), JStr(<<" ">>), JStr(<<"a">>)}
EmailValues == {Absent, JStr(<<>>), JStr(<<"a">>)}
CategoryValues == {Absent, JStr(<<"b">>)}
RatingValues == {Absent, JInt(0), JInt(1), JInt(5), JInt(6), JBool(TRUE), JStr(<<"5">>)}
CommentValues == {Absent, JStr(<<" ">>), JStr(<<" ", "a", " ">>), JInt(5)}

Objects ==
  { Fields(n, e, c, r, m) :
      n \in NameValues, e \in EmailValues, c \in CategoryValues, r \in RatingValues,
      m \in CommentValues }

ValidObject == Fields(JStr(<<"a">>), JStr(<<"a">>), Absent, JInt(5), JStr(<<"a">>))

Bodies ==
  {BodyMissing, BodyNone, BodyMalformed, BodyNonObject("list"), BodyNonObject("NoneType")}
    \cup {BodyObject(o) : o \in Objects}

\* Every request shape for POST; for the other methods a body of each form.
Events ==
  {Event("POST", b) : b \in Bodies}
    \cup { Event(m, b) :
             m \in {MISSING, "OPTIONS", "GET"},
             b \in {BodyMissing, BodyNone, BodyMalformed, BodyNonObject("list"),
                    BodyObject(ValidObject), BodyObject(NoFields)} }

\* The requests of concurrent environments: the same valid submission from
\* several clients, one without a rating, unparseable text, a preflight, a GET.
ConcEvents ==
  { Event("POST", BodyObject(ValidObject)),
    Event("POST", BodyObject(Fields(JStr(<<"a">>), JStr(<<"a">>), Absent, Absent,
                                    JStr(<<"a">>)))),
    Event("POST", BodyMalformed),
    Event("OPTIONS", BodyNone),
    Event("GET", BodyNone) }

\* str(uuid.uuid4()): a version-4 UUID is taken never to repeat, and one
\* identifier is as good as another, so they are named in the order in which
\* they are generated.  `issued` is the set of those returned so far.
Uuid(i) == "uuid-" \o ToString(i)

\* Mutant: the identifier is generated once, when the module is loaded.
uuid4AtLoad(issued) == Uuid(1)

uuid4(issued) == Uuid(Cardinality(issued) + 1)

\* datetime.now().isoformat(): local time, which may repeat.
Timestamps == {"2026-01-01T00:00:00", "2026-01-01T00:00:01"}

\* os.environ.get('DYNAMODB_TABLE_NAME'): unset (None), empty, or a name.
None == "<None>"
TableNames == {None, "", "FeedbackTable"}

\* What table.put_item raises when the store rejects or cannot be reached.
StoreFaults ==
  { Raise("ClientError",
          "An error occurred (AccessDeniedException) when calling the PutItem operation") }

\* ------------------------------------------------------------- state
VARIABLES
  table_name,   \* the module global read from the environment at load
  runtime,      \* per environment: "cold", "ready" (module loaded), "failed"
  pc,           \* per environment: "idle", or "put" (blocked in table.put_item)
  event,        \* per environment: the request of its current or last invocation
  item,         \* per environment: the item of the put_item call in progress
  response,     \* per environment: what its last finished invocation returned
  uncaught,     \* per environment: the exception its last invocation let escape
  puts,         \* per environment: the put_item calls of its current or last
                \* invocation, each "pending", "ok" or "fault"
  invocations,  \* invocations begun, over all environments
  store,        \* the DynamoDB table: a set of items, one per feedback_id
  issued,       \* the values uuid4 has returned
  returned,     \* the feedbackId of every 200 response, in the order returned
  writes        \* put_item calls that succeeded

vars ==
  <<table_name, runtime, pc, event, item, response, uncaught, puts, invocations, store,
    issued, returned, writes>>

Init ==
  /\ table_name \in TableNames
  /\ runtime = [p \in Envs |-> "cold"]
  /\ pc = [p \in Envs |-> "idle"]
  /\ event = [p \in Envs |-> NoEvent]
  /\ item = [p \in Envs |-> NoItem]
  /\ response = [p \in Envs |-> NoResponse]
  /\ uncaught = [p \in Envs |-> ""]
  /\ puts = [p \in Envs |-> <<>>]
  /\ invocations = 0
  /\ store = {}
  /\ issued = {}
  /\ returned = <<>>
  /\ writes = 0

\* Lines 9-16: the module is loaded; without a table name the load raises
\* ValueError and the environment never serves a request.
ColdStart(p) ==
  /\ runtime[p] = "cold"
  /\ runtime' = [runtime EXCEPT ![p] = IF table_name \in {None, ""} THEN "failed" ELSE "ready"]
  /\ UNCHANGED <<table_name, pc, event, item, response, uncaught, puts, invocations, store,
                 issued, returned, writes>>

\* Lines 18-108 and 129-161: an invocation up to its return, its uncaught
\* exception, or its call of table.put_item.
Invoke(p, e) ==
  /\ runtime[p] = "ready"
  /\ pc[p] = "idle"
  /\ event' = [event EXCEPT ![p] = e]
  /\ invocations' = invocations + 1
  /\ IF lambda_handler(e, "", "").kind = "put" THEN
       \E timestamp \in Timestamps :
         /\ item' = [item EXCEPT ![p] = lambda_handler(e, uuid4(issued), timestamp).item]
         /\ issued' = issued \cup {uuid4(issued)}
         /\ pc' = [pc EXCEPT ![p] = "put"]
         /\ puts' = [puts EXCEPT ![p] = <<"pending">>]
         /\ response' = [response EXCEPT ![p] = NoResponse]
         /\ uncaught' = [uncaught EXCEPT ![p] = ""]
     ELSE
       LET r == lambda_handler(e, "", "")
       IN /\ response' = [response EXCEPT ![p] = r.response]
          /\ uncaught' = [uncaught EXCEPT ![p] = r.exc]
          /\ puts' = [puts EXCEPT ![p] = <<>>]
          /\ UNCHANGED <<item, issued, pc>>
  /\ UNCHANGED <<table_name, runtime, store, returned, writes>>

\* Lines 112-127: put_item stores the item under its feedback_id, replacing
\* any item with that key, and the handler returns the 200.
PutItemOk(p) ==
  /\ pc[p] = "put"
  /\ store' = {i \in store : i.feedback_id # item[p].feedback_id} \cup {item[p]}
  /\ writes' = writes + 1
  /\ response' =
       [response EXCEPT ![p] = Response(200, cors_headers, SuccessBody(item[p].feedback_id))]
  /\ returned' = Append(returned, item[p].feedback_id)
  /\ pc' = [pc EXCEPT ![p] = "idle"]
  /\ item' = [item EXCEPT ![p] = NoItem]
  /\ puts' = [puts EXCEPT ![p] = <<"ok">>]
  /\ UNCHANGED <<table_name, runtime, event, uncaught, invocations, issued>>

\* Lines 112 and 129-153: put_item raises, nothing is stored, and the except
\* clauses turn the exception into the response.
PutItemFault(p) ==
  /\ pc[p] = "put"
  /\ \E f \in StoreFaults :
       response' = [response EXCEPT ![p] = Except(f.exc, f.msg)]
  /\ pc' = [pc EXCEPT ![p] = "idle"]
  /\ item' = [item EXCEPT ![p] = NoItem]
  /\ puts' = [puts EXCEPT ![p] = <<"fault">>]
  /\ UNCHANGED <<table_name, runtime, event, uncaught, invocations, store, issued,
                 returned, writes>>

\* One environment, every request shape.
Next ==
  \/ ColdStart(1)
  \/ invocations < MaxInvocations /\ runtime[1] = "ready" /\ pc[1] = "idle"
       /\ \E e \in Events : Invoke(1, e)
  \/ PutItemOk(1)
  \/ PutItemFault(1)

Spec == Init /\ [][Next]_vars

\* Concurrent environments sharing the table.
NextConc ==
  \/ \E p \in Envs : ColdStart(p)
  \/ invocations < MaxConcInvocations /\ \E p \in Envs, e \in ConcEvents : Invoke(p, e)
  \/ \E p \in Envs : PutItemOk(p)
  \/ \E p \in Envs : PutItemFault(p)

SpecConc == Init /\ [][NextConc]_vars

\* ------------------------------------------------------------ properties
\* The last invocation of environment p has ended (returned or raised).
Finished(p) == pc[p] = "idle" /\ event[p] # NoEvent
IsPost(p) == event[p].httpMethod = "POST"
\* The body of p's request is JSON text of an object.
Parsed(p) == event[p].body.form = "json" /\ event[p].body.value.t = "dict"
Sent(p) == event[p].body.value.o

\* The fields of a parsed object after the defaults of section 4.1, step 2.
NameOf(o) == IF o.name = Absent THEN Anonymous ELSE o.name
EmailOf(o) == IF o.email = Absent THEN NotAvailable ELSE o.email
CategoryOf(o) == IF o.category = Absent THEN General ELSE o.category
RatingOf(o) == IF o.rating = Absent THEN JInt(0) ELSE o.rating
CommentOf(o) == IF o.comment = Absent THEN JStr(<<>>) ELSE o.comment

NonEmpty(v) == IF v.t = "str" THEN v.s # <<>> ELSE Truthy(v)
NameOk(o) == NonEmpty(NameOf(o))
EmailOk(o) == NonEmpty(EmailOf(o))
CommentOk(o) == CommentOf(o).t = "str" /\ strip(CommentOf(o).s) # <<>>
RatingOk(o) == RatingOf(o).t \in {"int", "bool"} /\ RatingOf(o).n \in 1 .. 5

\* A POST whose body parses and passes the four validations.
ValidPost(p) ==
  /\ IsPost(p) /\ Parsed(p)
  /\ NameOk(Sent(p)) /\ EmailOk(Sent(p)) /\ CommentOk(Sent(p)) /\ RatingOk(Sent(p))

\* Record r carries the fields of the object o, the comment trimmed.
Carries(r, o) ==
  /\ r.Name = NameOf(o) /\ r.Email = EmailOf(o) /\ r.Category = CategoryOf(o)
  /\ r.Rating = RatingOf(o) /\ r.Comment = JStr(strip(CommentOf(o).s))

StatusAndBody(r, status, body) == r.statusCode = status /\ r.body = body
ErrorJson(msg) == [text |-> "json", obj |-> Obj("false", msg, NoField, NoField)]

\* C1: a POST that parses and passes the four validations makes exactly one
\* put_item call, with an item carrying the request's name, email, category,
\* rating and trimmed comment; when that call succeeds the response is 200
\* with success true, the fixed message and, as feedbackId, the key of the
\* one record written for it; no invocation makes more than one put_item call.
C1_ValidPostWritesOnceAndReturnsItsKey ==
  \A p \in Envs :
    /\ Len(puts[p]) <= 1
    /\ ValidPost(p) =>
         /\ Len(puts[p]) = 1
         /\ puts[p] = <<"pending">> =>
              pc[p] = "put" /\ Carries(item[p], Sent(p)) /\ item[p].feedback_id \in issued
         /\ puts[p] = <<"ok">> =>
              /\ pc[p] = "idle"
              /\ response[p].statusCode = 200
              /\ response[p].body.text = "json"
              /\ response[p].body.obj.success = "true"
              /\ response[p].body.obj.message = "Feedback submitted successfully!"
              /\ response[p].body.obj.error = NoField
              /\ Cardinality({r \in store :
                                r.feedback_id = response[p].body.obj.feedbackId
                                /\ Carries(r, Sent(p))}) = 1

\* C1 witness: a valid POST whose comment had surrounding blanks was written
\* and answered.
C1_Witness ==
  \E p \in Envs :
    /\ ValidPost(p) /\ puts[p] = <<"ok">>
    /\ Sent(p).comment = JStr(<<" ", "a", " ">>)
    /\ \E r \in store : r.Comment = JStr(<<"a">>)

\* The message of the first check, in the order name, email, comment,
\* rating, that the object o fails ("" when it fails none).
FirstFailure(o) ==
  IF ~NameOk(o) THEN "Feedback name cannot be empty."
  ELSE IF ~EmailOk(o) THEN "Feedback email cannot be empty."
  ELSE IF ~CommentOk(o) THEN "Feedback comment cannot be empty."
  ELSE IF ~RatingOk(o) THEN "Rating must be an integer between 1 and 5."
  ELSE ""

\* C2 as stated: for every parsed body that fails a check, the response is
\* the 400 of the first failing check in the order name, email, comment, rating.
C2_Original ==
  \A p \in Envs :
    (Finished(p) /\ IsPost(p) /\ Parsed(p) /\ FirstFailure(Sent(p)) # "") =>
      StatusAndBody(response[p], 400, ErrorJson(FirstFailure(Sent(p))))

\* C2 amended: the same, for every parsed body whose comment is absent or a
\* string; a missing rating counts as 0 and fails the rating check.
C2_FirstFailureWins ==
  \A p \in Envs :
    (Finished(p) /\ IsPost(p) /\ Parsed(p) /\ CommentOf(Sent(p)).t = "str"
       /\ FirstFailure(Sent(p)) # "") =>
      StatusAndBody(response[p], 400, ErrorJson(FirstFailure(Sent(p))))

\* C2 witness: a body failing the email, comment and rating checks at once
\* (no rating key) is answered with the email message.
C2_Witness ==
  \E p \in Envs :
    /\ Finished(p) /\ IsPost(p) /\ Parsed(p)
    /\ Sent(p) = Fields(JStr(<<"a">>), JStr(<<>>), Absent, Absent, JStr(<<" ">>))
    /\ response[p].body.obj.error = "Feedback email cannot be empty."

\* C3: under any interleaving of the environments' invocations the
\* feedbackId values of the 200 responses are pairwise distinct, an
\* identifier handed to put_item is neither a key of the table nor the
\* identifier of another put_item in progress, and the table holds one
\* record per successful put_item (none overwritten).
C3_IdsDistinctNoOverwrite ==
  /\ \A i, j \in 1 .. Len(returned) : i # j => returned[i] # returned[j]
  /\ Len(returned) = writes
  /\ Cardinality(store) = writes
  /\ {r.feedback_id : r \in store} = {returned[i] : i \in 1 .. Len(returned)}
  /\ \A p \in Envs :
       pc[p] = "put" =>
         /\ \A r \in store : r.feedback_id # item[p].feedback_id
         /\ \A q \in Envs \ {p} :
              pc[q] = "put" => item[q].feedback_id # item[p].feedback_id

\* C3 witness: two environments submitted the same fields at the same
\* local time and the table holds two records that differ in the key only.
C3_Witness ==
  /\ \E p, q \in Envs :
       /\ p # q /\ event[p] = event[q]
       /\ puts[p] = <<"ok">> /\ puts[q] = <<"ok">>
       /\ response[p].body.obj.feedbackId # response[q].body.obj.feedbackId
  /\ \E a, b \in store :
       /\ a.feedback_id # b.feedback_id
       /\ [a EXCEPT !.feedback_id = ""] = [b EXCEPT !.feedback_id = ""]

\* C4: in a POST, a fault that is neither a failure to parse the body nor a
\* validation failure (the comment has no strip, or put_item raises) is
\* answered with 500 and "Internal server error: " followed by the fault's
\* message, never with 400 or 200, and put_item is not called again.
C4_OtherFaultsAre500 ==
  \A p \in Envs :
    (Finished(p) /\ IsPost(p)) =>
      /\ (Parsed(p) /\ CommentOf(Sent(p)).t # "str") =>
           /\ StatusAndBody(response[p], 500,
                 ErrorJson("Internal server error: '" \o CommentOf(Sent(p)).t
                             \o "' object has no attribute 'strip'"))
           /\ puts[p] = <<>>
      /\ (\E k \in 1 .. Len(puts[p]) : puts[p][k] = "fault") =>
           /\ puts[p] = <<"fault">>
           /\ \E f \in StoreFaults :
                StatusAndBody(response[p], 500, ErrorJson("Internal server error: " \o f.msg))

\* C4 witness: put_item raised for a valid POST and the response is the 500.
C4_Witness ==
  \E p \in Envs :
    /\ ValidPost(p) /\ puts[p] = <<"fault">> /\ response[p].statusCode = 500
    /\ store = {}

\* C5 as stated: a POST whose body is not JSON text of an object (text that
\* is not JSON, no body, a None body, JSON of another type) is answered with
\* 400 "Invalid JSON in request body." and calls put_item never.
C5_UnparseableBodyIs400 ==
  \A p \in Envs :
    (Finished(p) /\ IsPost(p) /\ ~Parsed(p)) =>
      /\ StatusAndBody(response[p], 400, ErrorJson("Invalid JSON in request body."))
      /\ puts[p] = <<>>

\* The three CORS headers of section 6.
CorsHeaders ==
  { <<"Access-Control-Allow-Origin", "*">>,
    <<"Access-Control-Allow-Headers",
      "Content-Type,X-Amz-Date,Authorization,X-Api-Key,X-Amz-Security-Token">>,
    <<"Access-Control-Allow-Methods", "POST,OPTIONS">> }

\* C6: every response the handler returns has a status of 200, 400, 405 or
\* 500 and carries the three CORS headers.
C6_EveryResponseHasCors ==
  \A p \in Envs :
    response[p] # NoResponse =>
      response[p].statusCode \in {200, 400, 405, 500} /\ CorsHeaders \subseteq response[p].headers

\* C6 witness: a 500 response (put_item raised) with the headers.
C6_Witness ==
  \E p \in Envs :
    /\ puts[p] = <<"fault">> /\ response[p].statusCode = 500
    /\ response[p].headers = CorsHeaders

\* C7 as stated: every record of the table has a name that is non-empty
\* after trimming, a non-empty email, a comment that is non-empty after
\* trimming, and an integer (not boolean) rating from 1 to 5.
C7_StoredRecordsValid ==
  \A r \in store :
    /\ r.Name.t = "str" /\ strip(r.Name.s) # <<>>
    /\ NonEmpty(r.Email)
    /\ r.Comment.t = "str" /\ strip(r.Comment.s) # <<>>
    /\ r.Rating.t = "int" /\ r.Rating.n \in 1 .. 5

\* C8 as stated: in an environment whose module loaded, every invocation
\* ends with a response and no exception escapes; and where the table name
\* is missing no request is served and nothing is written.
C8_NothingEscapes ==
  /\ \A p \in Envs :
       (runtime[p] = "ready" /\ Finished(p)) => uncaught[p] = "" /\ response[p] # NoResponse
  /\ table_name \in {None, ""} =>
       /\ store = {} /\ invocations = 0
       /\ \A p \in Envs : runtime[p] # "ready" /\ event[p] = NoEvent /\ response[p] = NoResponse

\* C9: a request with httpMethod OPTIONS is answered 200 with the empty
\* string as body, whatever its body and with no put_item call; a request
\* with any httpMethod other than OPTIONS and POST is answered 405 with
\* {success: false, error: "Method Not Allowed"}.
C9_DispatchOnMethod ==
  \A p \in Envs :
    Finished(p) =>
      /\ event[p].httpMethod = "OPTIONS" =>
           /\ response[p].statusCode = 200 /\ response[p].body.text = ""
           /\ puts[p] = <<>>
      /\ event[p].httpMethod \notin {"OPTIONS", "POST", MISSING} =>
           StatusAndBody(response[p], 405, ErrorJson("Method Not Allowed"))

\* C9 witness: a preflight whose body would fail validation is answered 200
\* with the empty body.
C9_Witness ==
  \E p \in Envs :
    /\ Finished(p) /\ event[p] = Event("OPTIONS", BodyObject(NoFields))
    /\ response[p].statusCode = 200 /\ response[p].body.text = ""

\* An invocation of p that was answered as a preflight, with 405 or with 400.
AnsweredWithoutWrite(p) ==
  /\ Finished(p)
  /\ \/ response[p].statusCode \in {400, 405}
     \/ response[p].statusCode = 200 /\ event[p].httpMethod = "OPTIONS"

\* C10: the table changes only in the put_item of a POST that parsed and
\* passed the four validations, and then only by gaining that record; an
\* invocation answered as a preflight, with 405 or with 400 has called
\* put_item never and its step leaves the table as it was.
C10_StoreChangesOnlyOnValidPost ==
  [][ /\ store' # store =>
           \E p \in Envs :
             /\ ValidPost(p) /\ pc[p] = "put" /\ pc'[p] = "idle"
             /\ store' = store \cup {item[p]} /\ item[p] \notin store
      /\ \A p \in Envs :
           AnsweredWithoutWrite(p)' => puts'[p] = <<>>
      /\ invocations' # invocations => store' = store ]_vars

\* C10 witness: the table holds a record while one environment was answered
\* 400 for a POST without a rating and another 405, neither calling put_item.
C10_Witness ==
  /\ store # {}
  /\ \E p, q \in Envs :
       /\ Finished(p) /\ IsPost(p) /\ response[p].statusCode = 400 /\ puts[p] = <<>>
       /\ Finished(q) /\ response[q].statusCode = 405 /\ puts[q] = <<>>

====
